---- MODULE Spec2Model ----
(***************************************************************************)
(* Model of the windowing and aggregation layer of cloud-forecast:         *)
(*   src/src/training/tft.py  determine_window_lengths, _fill_missing_dates,*)
(*                            _pad_short_series, create_datasets           *)
(*   src/src/api/app.py       _pad_costs, _build_request_from_series,      *)
(*                            _summarize_provider, _aggregate_summary,     *)
(*                            forecast_summary                             *)
(* The forecaster and the database are external: their answers are inputs  *)
(* chosen in the initial state.                                            *)
(***************************************************************************)
EXTENDS Integers, Sequences, FiniteSets, TLC

VARIABLES
    pc,              \* which entry point is being exercised and whether it has run
    total_periods,   \* determine_window_lengths: df['time_idx'].max() + 1
    window,          \* determine_window_lengths: the returned pair
    costs,           \* _build_request_from_series: argument costs
    max_encoder,     \* _build_request_from_series: argument max_encoder
    recent_costs,    \* _build_request_from_series: ForecastRequest.recent_costs
    daily_costs,     \* the rows load_data reads from the daily_costs table
    MIN_SERIES_POINTS,  \* tft.py configuration (environment), fixed at start
    datasets,        \* create_datasets: its outcome and the frames it builds
    padding,         \* _pad_short_series: its arguments and the frame it returns
    TARGET_SUMMARY_CURRENCY,  \* app.py configuration (environment)
    USD_TO_INR_RATE,          \* app.py configuration (environment)
    MODEL_REGISTRY,           \* the provider keys with a loaded model
    PROVIDER_CONNECTIONS,     \* provider -> whether a connection string is set
    store,           \* provider -> what _load_recent_costs and the forecaster answer
    results,         \* _aggregate_summary: provider -> summary
    status,          \* forecast_summary: the HTTP status answered
    quantiles,       \* model.loss.quantiles, <<>> when the loss has none
    quantile,        \* _get_quantile_index: the level asked for
    quantile_idx,    \* _get_quantile_index: the index returned
    forecast         \* POST /forecast: the status and the body answered

train_vars == <<daily_costs, MIN_SERIES_POINTS, datasets, padding>>
serve_vars == <<TARGET_SUMMARY_CURRENCY, USD_TO_INR_RATE, MODEL_REGISTRY,
                PROVIDER_CONNECTIONS, store, results, status>>

quantile_vars == <<quantiles, quantile, quantile_idx, forecast>>

vars == <<pc, total_periods, window, costs, max_encoder, recent_costs,
          train_vars, serve_vars, quantile_vars>>

----------------------------------------------------------------------------
(* Bounds of the model *)

MaxSpan == 120
MaxLen == 3
MaxEncoder == 4
MaxDay == 6
MaxFillDay == 3
MaxMinPoints == 2
MaxPadDay == 2
MaxPadPoints == 3
MaxGroups == 3
MaxAggGroups == 1
MaxOrderGroups == 3
MaxQuantiles == 3

(* Values a daily cost takes in the model *)
CostValues == {0, 5}

(* The median forecasts a successful forecaster call returns in the model *)
Medians == {<<-2>>, <<4, -1>>}

(* Currency values of the currency column, "" for a missing one *)
Currencies == {"USD", "INR", "EUR", "usd", ""}

(* Values of SUMMARY_TARGET_CURRENCY and USD_TO_INR_RATE *)
Targets == {"INR", "USD", "EUR"}
Rates == {83, 0}

(* Provider keys: those of PROVIDER_CONNECTIONS, and those a model can be
   registered under *)
Connectable == {"gcp", "azure"}
Providers == {"gcp", "azure", "default"}

(* The (provider, service) series of the model *)
SeriesKeys == {<<"gcp", "compute">>, <<"gcp", "storage">>}

----------------------------------------------------------------------------
(* Program constants *)

MAX_ENCODER_LENGTH == 30
MAX_PREDICTION_LENGTH == 7

----------------------------------------------------------------------------
(* Python built-ins *)

Min(a, b) == IF a <= b THEN a ELSE b
Max(a, b) == IF a >= b THEN a ELSE b

SetMin(S) == CHOOSE x \in S : \A y \in S : x <= y
SetMax(S) == CHOOSE x \in S : \A y \in S : x >= y

\* [v] * n
Repeat(v, n) == [i \in 1..n |-> v]

\* s[-n:] for n >= 1
LastN(s, n) == IF Len(s) <= n THEN s ELSE SubSeq(s, Len(s) - n + 1, Len(s))

\* all sequences over S of length 0..n
SeqsUpTo(S, n) == UNION {[1..k -> S] : k \in 0..n}

----------------------------------------------------------------------------
(* tft.py: determine_window_lengths, on total_periods *)

\* the planner without the final "encoder must exceed the horizon" repair
determine_window_lengths_norepair(T) ==
    LET prediction_length == Min(MAX_PREDICTION_LENGTH, Max(1, T \div 3))
        e1 == Min(MAX_ENCODER_LENGTH, Max(2, T - prediction_length - 1))
        e2 == Min(e1, Max(1, T - 1))
    IN  [encoder_length |-> e2, prediction_length |-> prediction_length]

determine_window_lengths(T) ==
    LET prediction_length == Min(MAX_PREDICTION_LENGTH, Max(1, T \div 3))
        e1 == Min(MAX_ENCODER_LENGTH, Max(2, T - prediction_length - 1))
        e2 == Min(e1, Max(1, T - 1))
        encoder_length == IF e2 <= prediction_length THEN prediction_length + 1 ELSE e2
    IN  [encoder_length |-> encoder_length, prediction_length |-> prediction_length]

----------------------------------------------------------------------------
(* tft.py: data frames are sets of rows [key, date, time_idx, cost, region,
   currency]; key is the (provider, service) pair, date a day number, "" a
   NULL region or currency. The table holds one row per (date, provider,
   service). *)

Keys(df) == {r.key : r \in df}
Group(df, k) == {r \in df : r.key = k}
Dates(df) == {r.date : r \in df}
TimeIdx(df) == {r.time_idx : r \in df}

\* df.groupby(['provider', 'service']).size()
NumPoints(df, k) == Cardinality(Group(df, k))

\* the first row of a group of a frame sorted by date
FirstRow(df, k) == CHOOSE r \in Group(df, k) : \A q \in Group(df, k) : r.date <= q.date

\* fillna('unknown') of a categorical column
FillUnknown(value) == IF value = "" THEN "unknown" ELSE value

preprocess(rows) ==
    {[key |-> r.key, date |-> r.date, time_idx |-> r.date - SetMin(Dates(rows)),
      cost |-> r.cost, region |-> FillUnknown(r.region),
      currency |-> FillUnknown(r.currency)] : r \in rows}

\* reindex of one group over pd.date_range(min, max): cost.fillna(0.0), region
\* and currency forward-filled from the last observed day (the first day of
\* the range is observed, so bfill and fillna find nothing left to fill)
Expanded(df, k) ==
    LET group == Group(df, k)
        all_dates == SetMin(Dates(group)) .. SetMax(Dates(group))
        observed(d) == CHOOSE r \in group :
                           r.date = SetMax({x \in Dates(group) : x <= d})
    IN  {[key |-> k, date |-> d,
          cost |-> IF d \in Dates(group) THEN observed(d).cost ELSE 0,
          region |-> observed(d).region,
          currency |-> observed(d).currency] : d \in all_dates}

\* a fill that keeps only the observed rows (no reindex)
_fill_missing_dates_noreindex(df) ==
    {[key |-> r.key, date |-> r.date, time_idx |-> r.date - SetMin(Dates(df)),
      cost |-> r.cost, region |-> r.region, currency |-> r.currency] : r \in df}

_fill_missing_dates(df) ==
    LET result == UNION {Expanded(df, k) : k \in Keys(df)}
    IN  {[key |-> r.key, date |-> r.date, time_idx |-> r.date - SetMin(Dates(result)),
          cost |-> r.cost, region |-> r.region, currency |-> r.currency] : r \in result}

\* a padding that copies the latest row of the group
_pad_short_series_lastrow(df, min_points) ==
    LET additions(k) ==
            IF NumPoints(df, k) >= min_points THEN {}
            ELSE LET needed == min_points - NumPoints(df, k)
                     last_row == CHOOSE r \in Group(df, k) :
                                     \A q \in Group(df, k) : r.date >= q.date
                 IN  {[last_row EXCEPT !.date = FirstRow(df, k).date - (i + 1),
                                       !.time_idx = FirstRow(df, k).time_idx - (i + 1)] :
                         i \in 0..(needed - 1)}
    IN  df \cup UNION {additions(k) : k \in Keys(df)}

\* the frame is sorted by date when it is padded (line 117), so group.iloc[0]
\* is the earliest row of the group
_pad_short_series(df, min_points) ==
    LET additions(k) ==
            IF NumPoints(df, k) >= min_points THEN {}
            ELSE LET needed == min_points - NumPoints(df, k)
                     first_row == FirstRow(df, k)
                 IN  {[first_row EXCEPT !.date = @ - (i + 1),
                                        !.time_idx = @ - (i + 1)] : i \in 0..(needed - 1)}
    IN  df \cup UNION {additions(k) : k \in Keys(df)}

\* min over the groups of groupby(...).size()
ShortestSeries(df) == SetMin({NumPoints(df, k) : k \in Keys(df)})

\* the refinement without the clamp of the encoder (line 172-173)
RefineWindow_noclamp(encoder_length, prediction_length, shortest_series) ==
    LET p1 == IF shortest_series <= prediction_length
              THEN Max(1, shortest_series - 1) ELSE prediction_length
        p2 == IF encoder_length + p1 > shortest_series
              THEN Max(1, shortest_series - encoder_length) ELSE p1
    IN  [encoder_length |-> encoder_length, prediction_length |-> p2]

\* create_datasets, line 170-175
RefineWindow(encoder_length, prediction_length, shortest_series) ==
    LET p1 == IF shortest_series <= prediction_length
              THEN Max(1, shortest_series - 1) ELSE prediction_length
        max_encoder_allowed == Max(1, shortest_series - p1)
        e1 == Min(encoder_length, max_encoder_allowed)
        p2 == IF e1 + p1 > shortest_series
              THEN Max(1, shortest_series - e1) ELSE p1
    IN  [encoder_length |-> e1, prediction_length |-> p2]

\* the threshold without the cap at the longest series (line 137)
EffectiveMinSeriesLength_nocap(min_series_length, max_points) ==
    LET e1 == IF max_points >= MIN_SERIES_POINTS
              THEN Max(MIN_SERIES_POINTS, min_series_length)
              ELSE max_points
    IN  Max(1, e1)

\* the threshold without the relaxation of line 140-141
EffectiveMinSeriesLength_norelax(min_series_length, max_points) ==
    Max(1, Max(MIN_SERIES_POINTS, Min(min_series_length, max_points)))

\* create_datasets, line 137-143
EffectiveMinSeriesLength(min_series_length, max_points) ==
    LET e0 == Min(min_series_length, max_points)
        e1 == IF max_points >= MIN_SERIES_POINTS THEN Max(MIN_SERIES_POINTS, e0)
              ELSE max_points
    IN  Max(1, e1)

\* the cutoff without the collapse of line 180-181
TrainingCutoff_nocollapse(df_filtered, prediction_length) ==
    SetMax(TimeIdx(df_filtered)) - prediction_length

\* create_datasets, line 177-185
TrainingCutoff(df_filtered, prediction_length) ==
    LET max_time == SetMax(TimeIdx(df_filtered))
        min_time == SetMin(TimeIdx(df_filtered))
        c0 == max_time - prediction_length
    IN  IF c0 <= min_time THEN max_time ELSE c0

TrainingDf(df_filtered, training_cutoff) ==
    LET training_df == {r \in df_filtered : r.time_idx <= training_cutoff}
    IN  IF training_df = {} THEN df_filtered ELSE training_df

NoDatasets ==
    [outcome |-> "none", planned |-> [encoder_length |-> 0, prediction_length |-> 0],
     effective_min_series_length |-> 0, df |-> {}, df_kept |-> {}, df_filled |-> {},
     df_filtered |-> {}, shortest_series |-> 0, encoder_length |-> 0,
     prediction_length |-> 0, training_cutoff |-> 0, training_df |-> {}]

\* create_datasets up to the two TimeSeriesDataSet constructions
create_datasets(df) ==
    IF df = {} THEN [NoDatasets EXCEPT !.outcome = "no_points"]
    ELSE
    LET planned == determine_window_lengths(SetMax(TimeIdx(df)) + 1)
        min_series_length == planned.encoder_length + planned.prediction_length
        max_points == SetMax({NumPoints(df, k) : k \in Keys(df)})
        effective == EffectiveMinSeriesLength(min_series_length, max_points)
        keep == {k \in Keys(df) : NumPoints(df, k) >= effective}
        df_kept == {r \in df : r.key \in keep}
    IN  IF df_kept = {}
        THEN [NoDatasets EXCEPT !.outcome = "not_enough", !.planned = planned,
                                !.effective_min_series_length = effective, !.df = df]
        ELSE
        LET df_filled == _fill_missing_dates(df_kept)
            df_filtered == IF ShortestSeries(df_filled) < 2
                           THEN _pad_short_series(df_filled, 2) ELSE df_filled
            shortest_series == ShortestSeries(df_filtered)
            refined == RefineWindow(planned.encoder_length, planned.prediction_length,
                                    shortest_series)
            training_cutoff == TrainingCutoff(df_filtered, refined.prediction_length)
        IN  [outcome |-> "ok", planned |-> planned,
             effective_min_series_length |-> effective, df |-> df,
             df_kept |-> df_kept, df_filled |-> df_filled, df_filtered |-> df_filtered,
             shortest_series |-> shortest_series,
             encoder_length |-> refined.encoder_length,
             prediction_length |-> refined.prediction_length,
             training_cutoff |-> training_cutoff,
             training_df |-> TrainingDf(df_filtered, training_cutoff)]

----------------------------------------------------------------------------
(* app.py: quantile levels are written in percent (0.5 is 50); indices are
   0-based as in the code *)

\* quantiles.index(level): the 0-based position of the first occurrence
IndexOf(qs, level) == SetMin({i \in 1..Len(qs) : qs[i] = level}) - 1

\* a selector that always answers the middle index
_get_quantile_index_middle(qs, level) ==
    IF qs # <<>> THEN Len(qs) \div 2 ELSE 0

_get_quantile_index(qs, level) ==
    IF qs # <<>> /\ level \in {qs[i] : i \in 1..Len(qs)} THEN IndexOf(qs, level)
    ELSE IF qs # <<>> THEN Len(qs) \div 2
    ELSE 0

\* tft.py train_model: QuantileLoss() with its default levels, output_size 7
DefaultQuantiles == <<2, 10, 25, 50, 75, 90, 98>>

\* the labels of the POST /forecast response, in the order of the handler's
\* list, and the level each label names
ForecastLabels == <<"0.1", "0.5", "0.9">>
LabelLevel == [label \in {"0.1", "0.5", "0.9"} |->
                  IF label = "0.1" THEN 10 ELSE IF label = "0.5" THEN 50 ELSE 90]

\* the size of the last axis of model.predict(..., mode="quantiles"): one
\* column per configured level, one column when the loss has no levels
NumOutputs(qs) == Max(1, Len(qs))

\* the handler's loop: label number i takes column i of the prediction; a
\* column the prediction does not have raises IndexError (status 500)
forecast_response(qs) ==
    IF \E i \in 1..Len(ForecastLabels) : i - 1 >= NumOutputs(qs)
    THEN [status |-> 500, forecast |-> <<>>]
    ELSE [status |-> 200,
          forecast |-> [label \in {ForecastLabels[i] : i \in 1..Len(ForecastLabels)} |->
                           (CHOOSE i \in 1..Len(ForecastLabels) :
                                ForecastLabels[i] = label) - 1]]

----------------------------------------------------------------------------
(* app.py: _pad_costs, _build_request_from_series *)

\* padding with zeros instead of the first value
_pad_costs_zero(cs, desired_length) ==
    IF Len(cs) >= desired_length THEN cs
    ELSE Repeat(0, desired_length - Len(cs)) \o cs

_pad_costs(cs, desired_length) ==
    IF cs = <<>> THEN Repeat(0, desired_length)
    ELSE IF Len(cs) >= desired_length THEN cs
    ELSE Repeat(cs[1], desired_length - Len(cs)) \o cs

\* the builder without the padding step: a single zero for an empty series
_build_request_nopad(cs, L) ==
    LET recent == IF L # 0 THEN LastN(cs, L) ELSE cs
    IN  IF recent = <<>> THEN <<0>> ELSE recent

\* the recent_costs field of the request _build_request_from_series returns
_build_request_from_series(cs, L) ==
    LET recent == IF L # 0 THEN LastN(cs, L) ELSE cs
        padded == IF L # 0 /\ Len(recent) < L THEN _pad_costs(recent, L) ELSE recent
    IN  IF padded = <<>> THEN <<0>> ELSE padded

----------------------------------------------------------------------------
(* Exact fractions <<numerator, denominator>> in lowest terms, denominator
   > 0, for the float arithmetic of _summarize_provider *)

Abs(n) == IF n < 0 THEN -n ELSE n

RECURSIVE GCD(_, _)
GCD(a, b) == IF b = 0 THEN a ELSE GCD(b, a % b)

Frac(n, d) ==
    LET g == GCD(Abs(n), Abs(d))
        sgn == IF d < 0 THEN -1 ELSE 1
    IN  <<sgn * (n \div g), sgn * (d \div g)>>

Zero == <<0, 1>>
FAdd(x, y) == Frac(x[1] * y[2] + y[1] * x[2], x[2] * y[2])
FMul(x, y) == Frac(x[1] * y[1], x[2] * y[2])
FDiv(x, y) == Frac(x[1] * y[2], x[2] * y[1])
FInt(n) == <<n, 1>>
FNeg(x) == x[1] < 0
\* max(0.0, x)
FMax0(x) == IF FNeg(x) THEN Zero ELSE x

RECURSIVE SumSeq(_)
SumSeq(s) == IF s = <<>> THEN 0 ELSE s[1] + SumSeq(Tail(s))

----------------------------------------------------------------------------
(* app.py: _summarize_provider. A group of the groupby at line 224 is
   [currency, ok, median]: its currency column, whether the calls of line
   231-234 return, and the median they return; its position in the sorted
   groupby stands for its (service, region). *)

\* str.upper() on the currency codes of the model
Upper(c) == IF c = "usd" THEN "USD" ELSE c

\* (currency or "USD").upper()
CurrencyCode(currency) == Upper(IF currency = "" THEN "USD" ELSE currency)

\* line 239-243
Rollup(median) ==
    LET horizon_days == Max(1, Len(median))
        weekly == FInt(SumSeq(median))
        daily_avg == FDiv(weekly, FInt(horizon_days))
        monthly == FMul(daily_avg, FInt(30))
        yearly == FMul(monthly, FInt(12))
    IN  [weekly |-> weekly, monthly |-> monthly, yearly |-> yearly]

\* a conversion that takes any group in USD or INR to any other target
Converts_anypair(currency_code) ==
    /\ currency_code # TARGET_SUMMARY_CURRENCY
    /\ currency_code \in {"USD", "INR"}
    /\ USD_TO_INR_RATE # 0

\* line 246-258: whether one of the two conversion branches is taken
Converts(currency_code) ==
    /\ currency_code # TARGET_SUMMARY_CURRENCY
    /\ \/ currency_code = "USD" /\ TARGET_SUMMARY_CURRENCY = "INR" /\ USD_TO_INR_RATE # 0
       \/ currency_code = "INR" /\ TARGET_SUMMARY_CURRENCY = "USD" /\ USD_TO_INR_RATE # 0

\* line 248 and 254: the factor of the branch taken
Factor(currency_code) ==
    IF currency_code = "USD" THEN FInt(USD_TO_INR_RATE)
    ELSE FDiv(FInt(1), FInt(USD_TO_INR_RATE))

\* line 245-258: the figures and the currency code after conversion
Convert(currency_code, r) ==
    IF Converts(currency_code)
    THEN [currency |-> TARGET_SUMMARY_CURRENCY,
          weekly |-> FMul(r.weekly, Factor(currency_code)),
          monthly |-> FMul(r.monthly, Factor(currency_code)),
          yearly |-> FMul(r.yearly, Factor(currency_code))]
    ELSE [currency |-> currency_code,
          weekly |-> r.weekly, monthly |-> r.monthly, yearly |-> r.yearly]

\* the entry without the floor at zero of line 260-262
ServiceDetail_nofloor(i, g) ==
    LET c == Convert(CurrencyCode(g.currency), Rollup(g.median))
    IN  [service |-> i, currency |-> c.currency,
         weekly |-> c.weekly, monthly |-> c.monthly, yearly |-> c.yearly]

\* line 239-262 and 273-280: the service_details entry of group i
ServiceDetail(i, g) ==
    LET c == Convert(CurrencyCode(g.currency), Rollup(g.median))
    IN  [service |-> i, currency |-> c.currency,
         weekly |-> FMax0(c.weekly),
         monthly |-> FMax0(c.monthly),
         yearly |-> FMax0(c.yearly)]

\* the value of provider_currency before the first group
None == "None"

\* a tag that keeps the first group's currency
NextProviderCurrency_first(provider_currency, currency_code) ==
    IF provider_currency = None THEN currency_code ELSE provider_currency

\* a tag that follows the last group seen
NextProviderCurrency_last(provider_currency, currency_code) == currency_code

\* line 268-271
NextProviderCurrency(provider_currency, currency_code) ==
    IF provider_currency = None THEN currency_code
    ELSE IF provider_currency # currency_code THEN "MULTI"
    ELSE provider_currency

\* {} as _summarize_provider returns it, and the accumulators of line 218-222
EmptySummary ==
    [weekly |-> Zero, monthly |-> Zero, yearly |-> Zero, services |-> <<>>,
     currency |-> None]

\* a loop that stops at the first group whose forecast fails
RECURSIVE SummarizeLoop_abort(_, _, _)
SummarizeLoop_abort(groups, i, acc) ==
    IF i > Len(groups) THEN acc
    ELSE IF ~groups[i].ok THEN acc
    ELSE LET e == ServiceDetail(i, groups[i])
         IN  SummarizeLoop_abort(groups, i + 1,
                 [weekly |-> FAdd(acc.weekly, e.weekly),
                  monthly |-> FAdd(acc.monthly, e.monthly),
                  yearly |-> FAdd(acc.yearly, e.yearly),
                  services |-> Append(acc.services, e),
                  currency |-> NextProviderCurrency(acc.currency, e.currency)])

\* the loop of line 225-280 from group i on
RECURSIVE SummarizeLoop(_, _, _)
SummarizeLoop(groups, i, acc) ==
    IF i > Len(groups) THEN acc
    ELSE IF ~groups[i].ok THEN SummarizeLoop(groups, i + 1, acc)
    ELSE LET e == ServiceDetail(i, groups[i])
         IN  SummarizeLoop(groups, i + 1,
                 [weekly |-> FAdd(acc.weekly, e.weekly),
                  monthly |-> FAdd(acc.monthly, e.monthly),
                  yearly |-> FAdd(acc.yearly, e.yearly),
                  services |-> Append(acc.services, e),
                  currency |-> NextProviderCurrency(acc.currency, e.currency)])

_summarize_provider(provider) ==
    IF provider \notin DOMAIN PROVIDER_CONNECTIONS \/ ~PROVIDER_CONNECTIONS[provider]
    THEN EmptySummary
    ELSE IF store[provider].raises THEN EmptySummary
    ELSE IF store[provider].groups = <<>> THEN EmptySummary
    ELSE LET acc == SummarizeLoop(store[provider].groups, 1, EmptySummary)
         IN  IF acc.services = <<>> THEN EmptySummary
             ELSE [acc EXCEPT !.currency =
                      IF acc.currency # None THEN acc.currency
                      ELSE TARGET_SUMMARY_CURRENCY]

\* an aggregate that gives up when one registered provider has no summary
_aggregate_summary_allornothing ==
    LET summary == [provider \in MODEL_REGISTRY |-> _summarize_provider(provider)]
    IN  IF \E p \in MODEL_REGISTRY : summary[p] = EmptySummary THEN <<>>
        ELSE summary

\* results[provider] = summary for the providers whose summary is not {}
_aggregate_summary ==
    LET summary == [provider \in MODEL_REGISTRY |-> _summarize_provider(provider)]
    IN  [provider \in {p \in MODEL_REGISTRY : summary[p] # EmptySummary}
            |-> summary[provider]]

----------------------------------------------------------------------------
(* Entry points *)

WindowIdle ==
    /\ total_periods = 0
    /\ window = [encoder_length |-> 0, prediction_length |-> 0]

RequestIdle == costs = <<>> /\ max_encoder = 0 /\ recent_costs = <<>>

NoPadding == [min_points |-> 0, df |-> {}, result |-> {}]

TrainIdle ==
    /\ daily_costs = {} /\ MIN_SERIES_POINTS = 1
    /\ datasets = NoDatasets /\ padding = NoPadding

NoStore == [raises |-> FALSE, groups |-> <<>>]

ServeIdle ==
    /\ TARGET_SUMMARY_CURRENCY = "INR" /\ USD_TO_INR_RATE = 83
    /\ MODEL_REGISTRY = {}
    /\ PROVIDER_CONNECTIONS = [p \in Connectable |-> FALSE]
    /\ store = [p \in Connectable |-> NoStore]
    /\ results = <<>> /\ status = 0

NoForecast == [status |-> 0, forecast |-> <<>>]

QuantileIdle ==
    quantiles = <<>> /\ quantile = 50 /\ quantile_idx = 0 /\ forecast = NoForecast

InitWindow ==
    /\ pc = "window"
    /\ total_periods \in 1..MaxSpan
    /\ window = [encoder_length |-> 0, prediction_length |-> 0]
    /\ RequestIdle /\ TrainIdle /\ ServeIdle /\ QuantileIdle

DetermineWindowLengths ==
    /\ pc = "window"
    /\ window' = determine_window_lengths(total_periods)
    /\ pc' = "window_done"
    /\ UNCHANGED <<total_periods, costs, max_encoder, recent_costs, train_vars, serve_vars, quantile_vars>>

InitRequest ==
    /\ pc = "request"
    /\ costs \in SeqsUpTo(CostValues, MaxLen)
    /\ max_encoder \in 0..MaxEncoder
    /\ recent_costs = <<>>
    /\ WindowIdle /\ TrainIdle /\ ServeIdle /\ QuantileIdle

BuildRequestFromSeries ==
    /\ pc = "request"
    /\ recent_costs' = _build_request_from_series(costs, max_encoder)
    /\ pc' = "request_done"
    /\ UNCHANGED <<total_periods, window, costs, max_encoder, train_vars, serve_vars, quantile_vars>>

\* the table rows of a choice of observed days (and their costs) per series; a
\* cost of -1 marks a day without a row. ETL.py writes the currency 'INR'.
TableRows(cost_of) ==
    UNION {{[key |-> k, date |-> d, cost |-> cost_of[k][d],
             region |-> "global", currency |-> "INR"] :
               d \in {x \in DOMAIN cost_of[k] : cost_of[k][x] >= 0}} : k \in SeriesKeys}

\* a training run over up to MaxDay + 1 days of history per series
InitTrain ==
    /\ pc = "train"
    /\ \E obs \in [SeriesKeys -> SUBSET (0..MaxDay)] :
          daily_costs = TableRows([k \in SeriesKeys |->
                            [d \in 0..MaxDay |-> IF d \in obs[k] THEN d + 1 ELSE -1]])
    /\ MIN_SERIES_POINTS \in 0..MaxMinPoints
    /\ datasets = NoDatasets /\ padding = NoPadding
    /\ WindowIdle /\ RequestIdle /\ ServeIdle /\ QuantileIdle

\* a training run over a short history with arbitrary costs
InitFill ==
    /\ pc = "fill"
    /\ \E cost_of \in [SeriesKeys -> [0..MaxFillDay -> CostValues \cup {-1}]] :
          daily_costs = TableRows(cost_of)
    /\ MIN_SERIES_POINTS \in 0..MaxMinPoints
    /\ datasets = NoDatasets /\ padding = NoPadding
    /\ WindowIdle /\ RequestIdle /\ ServeIdle /\ QuantileIdle

\* tft.py main(): load_data, preprocess, create_datasets
CreateDatasets ==
    /\ pc \in {"train", "fill"}
    /\ datasets' = create_datasets(preprocess(daily_costs))
    /\ pc' = IF pc = "train" THEN "train_done" ELSE "fill_done"
    /\ UNCHANGED <<total_periods, window, costs, max_encoder, recent_costs,
                   daily_costs, MIN_SERIES_POINTS, padding, serve_vars, quantile_vars>>

\* what a table row holds beside its key and date in a padding run
PadRowValues ==
    {[cost |-> 5, region |-> "us", currency |-> "USD"],
     [cost |-> 0, region |-> "", currency |-> "INR"]}

\* a frame of up to MaxPadDay + 1 days per series, gap-filled as create_datasets
\* does before it pads, and a minimum number of points
InitPad ==
    /\ pc = "pad"
    /\ \E days \in [SeriesKeys -> SUBSET (0..MaxPadDay)] :
       \E value_of \in [SeriesKeys -> [0..MaxPadDay -> PadRowValues]] :
          daily_costs = UNION {{[key |-> k, date |-> d, cost |-> value_of[k][d].cost,
                                 region |-> value_of[k][d].region,
                                 currency |-> value_of[k][d].currency] :
                                   d \in days[k]} : k \in SeriesKeys}
    /\ daily_costs # {}
    /\ MIN_SERIES_POINTS = 1
    /\ datasets = NoDatasets
    /\ \E min_points \in 1..MaxPadPoints :
          padding = [min_points |-> min_points, df |-> {}, result |-> {}]
    /\ WindowIdle /\ RequestIdle /\ ServeIdle /\ QuantileIdle

\* create_datasets line 153-160: the frame is filled, then padded
PadShortSeries ==
    /\ pc = "pad"
    /\ LET df == _fill_missing_dates(preprocess(daily_costs))
       IN  padding' = [padding EXCEPT !.df = df,
                           !.result = _pad_short_series(df, padding.min_points)]
    /\ pc' = "pad_done"
    /\ UNCHANGED <<total_periods, window, costs, max_encoder, recent_costs,
                   daily_costs, MIN_SERIES_POINTS, datasets, serve_vars, quantile_vars>>

\* the groups a provider's load can return: up to n groups, each with a
\* currency and a forecaster outcome
GroupSeqs(currencies, outcomes, n) ==
    SeqsUpTo({[currency |-> c, ok |-> o.ok, median |-> o.median] :
                 c \in currencies, o \in outcomes}, n)

Outcomes ==
    {[ok |-> FALSE, median |-> <<>>]} \cup {[ok |-> TRUE, median |-> m] : m \in Medians}

\* one registered, connected provider with up to MaxGroups groups
InitSummary ==
    /\ pc = "summary"
    /\ TARGET_SUMMARY_CURRENCY \in Targets
    /\ USD_TO_INR_RATE \in Rates
    /\ MODEL_REGISTRY = {"gcp"}
    /\ PROVIDER_CONNECTIONS = [p \in Connectable |-> p = "gcp"]
    /\ \E gs \in GroupSeqs(Currencies, Outcomes, MaxGroups) :
          store = [p \in Connectable |->
                      IF p = "gcp" THEN [raises |-> FALSE, groups |-> gs] ELSE NoStore]
    /\ results = <<>> /\ status = 0
    /\ WindowIdle /\ RequestIdle /\ TrainIdle /\ QuantileIdle

\* what a provider's database can answer in the portfolio scenario
AggStores ==
    {[raises |-> TRUE, groups |-> <<>>]} \cup
    {[raises |-> FALSE, groups |-> gs] :
        gs \in GroupSeqs({"USD"}, {o \in Outcomes : o.median \in {<<>>, <<4, -1>>}},
                         MaxAggGroups)}

\* any registry and any connections over the known providers
InitAggregate ==
    /\ pc = "aggregate"
    /\ TARGET_SUMMARY_CURRENCY \in Targets
    /\ USD_TO_INR_RATE \in Rates
    /\ MODEL_REGISTRY \in SUBSET Providers
    /\ PROVIDER_CONNECTIONS \in [Connectable -> BOOLEAN]
    /\ store \in [Connectable -> AggStores]
    /\ results = <<>> /\ status = 0
    /\ WindowIdle /\ RequestIdle /\ TrainIdle /\ QuantileIdle

\* the currencies of the groups in the ordering scenario
OrderCurrencies == {"USD", "INR", "EUR"}

\* one registered, connected provider with up to MaxOrderGroups groups, listed
\* in the order groupby yields them
InitOrder ==
    /\ pc = "order"
    /\ TARGET_SUMMARY_CURRENCY \in Targets
    /\ USD_TO_INR_RATE \in Rates
    /\ MODEL_REGISTRY = {"gcp"}
    /\ PROVIDER_CONNECTIONS = [p \in Connectable |-> p = "gcp"]
    /\ \E gs \in GroupSeqs(OrderCurrencies, Outcomes, MaxOrderGroups) :
          store = [p \in Connectable |->
                      IF p = "gcp" THEN [raises |-> FALSE, groups |-> gs] ELSE NoStore]
    /\ results = <<>> /\ status = 0
    /\ WindowIdle /\ RequestIdle /\ TrainIdle /\ QuantileIdle

\* app.py GET /forecast/summary
ForecastSummary ==
    /\ pc \in {"summary", "aggregate", "order"}
    /\ results' = _aggregate_summary
    /\ status' = IF DOMAIN results' = {} THEN 503 ELSE 200
    /\ pc' = IF pc = "summary" THEN "summary_done"
             ELSE IF pc = "aggregate" THEN "aggregate_done" ELSE "order_done"
    /\ UNCHANGED <<total_periods, window, costs, max_encoder, recent_costs, train_vars,
                   TARGET_SUMMARY_CURRENCY, USD_TO_INR_RATE, MODEL_REGISTRY,
                   PROVIDER_CONNECTIONS, store, quantile_vars>>

\* the levels of the short quantile lists and the levels asked for
Levels == {10, 50, 90}
WantedLevels == {50, 25}

\* a loaded model whose loss has no levels, up to MaxQuantiles levels in any
\* order, or the levels the training pipeline configures
InitQuantile ==
    /\ pc = "quantile"
    /\ quantiles \in SeqsUpTo(Levels, MaxQuantiles) \cup {DefaultQuantiles}
    /\ quantile \in WantedLevels
    /\ quantile_idx = 0 /\ forecast = NoForecast
    /\ WindowIdle /\ RequestIdle /\ TrainIdle /\ ServeIdle

\* app.py _get_quantile_index(model, quantile)
GetQuantileIndex ==
    /\ pc = "quantile"
    /\ quantile_idx' = _get_quantile_index(quantiles, quantile)
    /\ pc' = "quantile_done"
    /\ UNCHANGED <<total_periods, window, costs, max_encoder, recent_costs, train_vars,
                   serve_vars, quantiles, quantile, forecast>>

\* app.py POST /forecast for a registered model and a well-formed request
Forecast ==
    /\ pc = "quantile"
    /\ forecast' = forecast_response(quantiles)
    /\ pc' = "forecast_done"
    /\ UNCHANGED <<total_periods, window, costs, max_encoder, recent_costs, train_vars,
                   serve_vars, quantiles, quantile, quantile_idx>>

Init ==
    \/ InitQuantile
    \/ InitWindow \/ InitRequest \/ InitTrain \/ InitFill \/ InitPad
    \/ InitSummary \/ InitAggregate \/ InitOrder

Next ==
    \/ DetermineWindowLengths
    \/ BuildRequestFromSeries
    \/ CreateDatasets
    \/ PadShortSeries
    \/ ForecastSummary
    \/ GetQuantileIndex
    \/ Forecast

Spec == Init /\ [][Next]_vars

SpecWindow == InitWindow /\ [][DetermineWindowLengths]_vars

SpecRequest == InitRequest /\ [][BuildRequestFromSeries]_vars

SpecTrain == InitTrain /\ [][CreateDatasets]_vars

SpecFill == InitFill /\ [][CreateDatasets]_vars

SpecPad == InitPad /\ [][PadShortSeries]_vars

SpecSummary == InitSummary /\ [][ForecastSummary]_vars

SpecAggregate == InitAggregate /\ [][ForecastSummary]_vars

SpecOrder == InitOrder /\ [][ForecastSummary]_vars

SpecQuantile == InitQuantile /\ [][GetQuantileIndex \/ Forecast]_vars

----------------------------------------------------------------------------
(* C1: for every total span T >= 1 the planner returns encoder_length >= 1,
   prediction_length >= 1 and encoder_length > prediction_length. *)
WindowMonotonicity ==
    pc = "window_done" =>
        /\ window.encoder_length >= 1
        /\ window.prediction_length >= 1
        /\ window.encoder_length > window.prediction_length

\* a planned window where the repair of line 75-76 was needed (T = 1)
WindowMonotonicityWitness ==
    /\ pc = "window_done"
    /\ total_periods = 1
    /\ window = [encoder_length |-> 2, prediction_length |-> 1]

----------------------------------------------------------------------------
(* C2: for every input with at least one observation create_datasets ends
   with encoder_length + prediction_length <= S_min, the row count of the
   shortest retained series after gap filling and padding, and with both
   lengths >= 1. *)
PlanFeasibility ==
    (pc = "train_done" /\ daily_costs # {}) =>
        /\ datasets.outcome = "ok"
        /\ datasets.encoder_length >= 1
        /\ datasets.prediction_length >= 1
        /\ \A k \in Keys(datasets.df_filtered) :
              datasets.encoder_length + datasets.prediction_length
                  <= Cardinality({r \in datasets.df_filtered : r.key = k})

\* a run where both shrinks acted: planned (4, 2) against a shortest series
\* of 2 rows ends as (1, 1)
PlanFeasibilityWitness ==
    /\ pc = "train_done"
    /\ datasets.outcome = "ok"
    /\ datasets.planned = [encoder_length |-> 4, prediction_length |-> 2]
    /\ datasets.shortest_series = 2
    /\ datasets.encoder_length = 1
    /\ datasets.prediction_length = 1

----------------------------------------------------------------------------
(* C3: for N >= 1 and L >= 1 the builder returns exactly L values: the last
   L inputs when N >= L, otherwise the first input repeated L - N times
   followed by all N inputs in order. *)
BuildRequestWindow ==
    (pc = "request_done" /\ Len(costs) >= 1 /\ max_encoder >= 1) =>
        LET N == Len(costs)
            L == max_encoder
        IN  /\ Len(recent_costs) = L
            /\ N >= L => \A i \in 1..L : recent_costs[i] = costs[N - L + i]
            /\ N < L =>
                 /\ \A i \in 1..(L - N) : recent_costs[i] = costs[1]
                 /\ \A i \in 1..N : recent_costs[L - N + i] = costs[i]

\* [5, 0] padded to 4 values with the first value, not with zeros
BuildRequestWindowWitness ==
    /\ pc = "request_done"
    /\ costs = <<5, 0>>
    /\ max_encoder = 4
    /\ recent_costs = <<5, 5, 5, 0>>

(* C4 as stated: an empty cost sequence yields a single zero value for
   every target encoder length L. *)
EmptyHistorySingleZero ==
    (pc = "request_done" /\ costs = <<>>) => recent_costs = <<0>>

(* C4 as amended: an empty cost sequence yields L zeros when L >= 1, and a
   single zero only when no encoder length is given (L = 0). *)
EmptyHistoryZeros ==
    (pc = "request_done" /\ costs = <<>>) =>
        /\ Len(recent_costs) = (IF max_encoder = 0 THEN 1 ELSE max_encoder)
        /\ \A i \in 1..Len(recent_costs) : recent_costs[i] = 0

EmptyHistoryZerosWitness ==
    /\ pc = "request_done"
    /\ costs = <<>>
    /\ max_encoder = 3
    /\ recent_costs = <<0, 0, 0>>

----------------------------------------------------------------------------
(* C10: after _fill_missing_dates every retained series has exactly one row
   for each day from its first to its last observed date, its time_idx
   values are contiguous, every inserted day has cost 0 and every observed
   day keeps its cost. *)
CalendarFill ==
    (pc = "fill_done" /\ datasets.outcome = "ok") =>
        /\ Keys(datasets.df_filled) = Keys(datasets.df_kept)
        /\ \A k \in Keys(datasets.df_kept) :
              LET obs == {r \in datasets.df_kept : r.key = k}
                  out == {r \in datasets.df_filled : r.key = k}
                  lo == SetMin({r.date : r \in obs})
                  hi == SetMax({r.date : r \in obs})
                  idx == {r.time_idx : r \in out}
              IN  /\ \A d \in lo..hi : Cardinality({r \in out : r.date = d}) = 1
                  /\ \A r \in out : r.date \in lo..hi
                  /\ idx = SetMin(idx)..SetMax(idx)
                  /\ Cardinality(idx) = hi - lo + 1
                  /\ \A r \in out :
                        IF \E q \in obs : q.date = r.date
                        THEN \E q \in obs : q.date = r.date /\ q.cost = r.cost
                        ELSE r.cost = 0

\* observations on day 0 and day 3 only: 4 consecutive days, cost 0 on days
\* 1 and 2
CalendarFillWitness ==
    /\ pc = "fill_done"
    /\ datasets.outcome = "ok"
    /\ LET k == <<"gcp", "compute">>
           obs == {r \in datasets.df_kept : r.key = k}
           out == {r \in datasets.df_filled : r.key = k}
       IN  /\ {r.date : r \in obs} = {0, 3}
           /\ \A r \in obs : r.cost = 5
           /\ {<<r.date, r.cost>> : r \in out} = {<<0, 5>>, <<1, 0>>, <<2, 0>>, <<3, 5>>}
           /\ {r.time_idx : r \in out} = 0..3

----------------------------------------------------------------------------
(* Claims about one provider's summary are stated on results["gcp"], the
   summary of the groups store["gcp"].groups. *)

RECURSIVE FSum(_)
FSum(fs) == IF fs = <<>> THEN Zero ELSE FAdd(fs[1], FSum(Tail(fs)))

GcpGroups == store["gcp"].groups
GcpPresent == "gcp" \in DOMAIN results
GcpServices == results["gcp"].services

(* C5: every per-group weekly, monthly and yearly figure and the three
   provider totals are >= 0, whatever the forecaster returned and whichever
   conversion branch was taken. *)
NonNegativity ==
    (pc = "summary_done" /\ GcpPresent) =>
        /\ ~FNeg(results["gcp"].weekly)
        /\ ~FNeg(results["gcp"].monthly)
        /\ ~FNeg(results["gcp"].yearly)
        /\ \A j \in 1..Len(GcpServices) :
              /\ ~FNeg(GcpServices[j].weekly)
              /\ ~FNeg(GcpServices[j].monthly)
              /\ ~FNeg(GcpServices[j].yearly)

\* a converted USD group whose forecast is negative, next to a positive one
NonNegativityWitness ==
    /\ pc = "summary_done"
    /\ TARGET_SUMMARY_CURRENCY = "INR" /\ USD_TO_INR_RATE = 83
    /\ GcpGroups = <<[currency |-> "USD", ok |-> TRUE, median |-> <<-2>>],
                     [currency |-> "INR", ok |-> TRUE, median |-> <<4, -1>>]>>
    /\ GcpPresent
    /\ GcpServices[1].weekly = Zero /\ GcpServices[1].yearly = Zero
    /\ results["gcp"].weekly = <<3, 1>>

(* C6: the groups whose forecast call raises are skipped without aborting
   the loop: the service list holds exactly the other groups, in order, the
   totals are the sums of exactly their figures, and the request is answered
   (no summary entry at all when every group failed). *)
PartialFailureIsolation ==
    pc = "summary_done" =>
        LET good == {i \in 1..Len(GcpGroups) : GcpGroups[i].ok}
        IN  IF good = {}
            THEN ~GcpPresent /\ status = 503
            ELSE /\ GcpPresent /\ status = 200
                 /\ {GcpServices[j].service : j \in 1..Len(GcpServices)} = good
                 /\ Len(GcpServices) = Cardinality(good)
                 /\ \A j \in 1..Len(GcpServices) :
                       /\ GcpServices[j] =
                              ServiceDetail(GcpServices[j].service,
                                            GcpGroups[GcpServices[j].service])
                       /\ j > 1 => GcpServices[j - 1].service < GcpServices[j].service
                 /\ results["gcp"].weekly =
                        FSum([j \in 1..Len(GcpServices) |-> GcpServices[j].weekly])
                 /\ results["gcp"].monthly =
                        FSum([j \in 1..Len(GcpServices) |-> GcpServices[j].monthly])
                 /\ results["gcp"].yearly =
                        FSum([j \in 1..Len(GcpServices) |-> GcpServices[j].yearly])

\* three groups, the second fails: totals from groups one and three
PartialFailureIsolationWitness ==
    /\ pc = "summary_done"
    /\ Len(GcpGroups) = 3
    /\ GcpGroups[1].ok /\ ~GcpGroups[2].ok /\ GcpGroups[3].ok
    /\ GcpGroups[1].median = <<4, -1>> /\ GcpGroups[3].median = <<4, -1>>
    /\ GcpGroups[1].currency = "EUR" /\ GcpGroups[3].currency = "EUR"
    /\ GcpPresent
    /\ Len(GcpServices) = 2
    /\ GcpServices[1].service = 1 /\ GcpServices[2].service = 3
    /\ results["gcp"].weekly = <<6, 1>>
    /\ status = 200

(* C8 as stated: a group whose currency differs from the reporting currency
   is converted (figures scaled by the rate or its reciprocal, retagged with
   the reporting currency) exactly when the pair is USD and the local
   currency (INR, the currency of the configured rate); every other
   mismatched pair keeps its figures and its code. *)
ConversionExactlyForUsdInr ==
    (pc = "summary_done" /\ GcpPresent) =>
        \A j \in 1..Len(GcpServices) :
            LET e == GcpServices[j]
                g == GcpGroups[e.service]
                code == CurrencyCode(g.currency)
                base == Rollup(g.median)
                f == IF code = "USD" THEN <<USD_TO_INR_RATE, 1>>
                     ELSE <<1, USD_TO_INR_RATE>>
            IN  IF code # TARGET_SUMMARY_CURRENCY
                   /\ {code, TARGET_SUMMARY_CURRENCY} = {"USD", "INR"}
                THEN /\ e.currency = TARGET_SUMMARY_CURRENCY
                     /\ e.weekly = FMax0(FMul(base.weekly, f))
                     /\ e.monthly = FMax0(FMul(base.monthly, f))
                     /\ e.yearly = FMax0(FMul(base.yearly, f))
                ELSE /\ e.currency = code
                     /\ e.weekly = FMax0(base.weekly)
                     /\ e.monthly = FMax0(base.monthly)
                     /\ e.yearly = FMax0(base.yearly)

(* C8 as amended: the group is converted exactly when its currency and the
   reporting currency are USD and INR, in either order, and the configured
   rate is not zero; in every other case, a zero rate included, its figures
   and its code are left unconverted. *)
ConversionForUsdInrWithRate ==
    (pc = "summary_done" /\ GcpPresent) =>
        \A j \in 1..Len(GcpServices) :
            LET e == GcpServices[j]
                g == GcpGroups[e.service]
                code == CurrencyCode(g.currency)
                base == Rollup(g.median)
                f == IF code = "USD" THEN <<USD_TO_INR_RATE, 1>>
                     ELSE <<1, USD_TO_INR_RATE>>
            IN  IF code # TARGET_SUMMARY_CURRENCY
                   /\ {code, TARGET_SUMMARY_CURRENCY} = {"USD", "INR"}
                   /\ USD_TO_INR_RATE # 0
                THEN /\ e.currency = TARGET_SUMMARY_CURRENCY
                     /\ e.weekly = FMax0(FMul(base.weekly, f))
                     /\ e.monthly = FMax0(FMul(base.monthly, f))
                     /\ e.yearly = FMax0(FMul(base.yearly, f))
                ELSE /\ e.currency = code
                     /\ e.weekly = FMax0(base.weekly)
                     /\ e.monthly = FMax0(base.monthly)
                     /\ e.yearly = FMax0(base.yearly)

\* an INR group scaled by 1/83 into USD next to an unconverted EUR group
ConversionForUsdInrWithRateWitness ==
    /\ pc = "summary_done"
    /\ TARGET_SUMMARY_CURRENCY = "USD" /\ USD_TO_INR_RATE = 83
    /\ GcpGroups = <<[currency |-> "INR", ok |-> TRUE, median |-> <<4, -1>>],
                     [currency |-> "EUR", ok |-> TRUE, median |-> <<4, -1>>]>>
    /\ GcpPresent
    /\ GcpServices[1].currency = "USD" /\ GcpServices[1].weekly = <<3, 83>>
    /\ GcpServices[1].monthly = <<45, 83>>
    /\ GcpServices[2].currency = "EUR" /\ GcpServices[2].weekly = <<3, 1>>

(* C9: the provider currency tag is the common post-conversion code when
   every retained group has the same code, and the mixed sentinel "MULTI"
   when at least two retained groups differ, for every number and order of
   groups. *)
ProviderCurrencyTag ==
    (pc = "summary_done" /\ GcpPresent) =>
        LET codes == {GcpServices[j].currency : j \in 1..Len(GcpServices)}
        IN  IF Cardinality(codes) = 1
            THEN results["gcp"].currency \in codes
            ELSE results["gcp"].currency = "MULTI"

\* codes INR, EUR, INR: the tag stays mixed although the last group agrees
\* with the first
ProviderCurrencyTagWitness ==
    /\ pc = "summary_done"
    /\ GcpPresent
    /\ Len(GcpServices) = 3
    /\ GcpServices[1].currency = "INR"
    /\ GcpServices[2].currency = "EUR"
    /\ GcpServices[3].currency = "INR"
    /\ results["gcp"].currency = "MULTI"

----------------------------------------------------------------------------
(* C7: the aggregate holds an entry for a registered provider exactly when
   the provider has a configured connection, its load succeeded with at
   least one row and at least one of its groups was forecast; the other
   providers' entries are what their own groups give; GET forecast/summary
   answers 503 exactly when the mapping is empty. *)
AggregatePresence ==
    pc = "aggregate_done" =>
        /\ \A p \in Providers :
              LET good == IF p \in Connectable
                          THEN {i \in 1..Len(store[p].groups) : store[p].groups[i].ok}
                          ELSE {}
              IN  /\ p \in DOMAIN results <=>
                        /\ p \in MODEL_REGISTRY
                        /\ p \in Connectable
                        /\ PROVIDER_CONNECTIONS[p]
                        /\ ~store[p].raises
                        /\ good # {}
                  /\ p \in DOMAIN results =>
                        {results[p].services[j].service :
                            j \in 1..Len(results[p].services)} = good
        /\ status = (IF DOMAIN results = {} THEN 503 ELSE 200)

\* gcp's load fails, azure is summarised all the same
AggregatePresenceWitness ==
    /\ pc = "aggregate_done"
    /\ MODEL_REGISTRY = {"gcp", "azure"}
    /\ PROVIDER_CONNECTIONS["gcp"] /\ PROVIDER_CONNECTIONS["azure"]
    /\ store["gcp"].raises
    /\ DOMAIN results = {"azure"}
    /\ Len(results["azure"].services) = 1
    /\ status = 200

----------------------------------------------------------------------------
(* Claims about retention are stated on datasets.df, the preprocessed frame
   create_datasets received, and datasets.df_kept, the rows it retained. *)

PointCount(k) == Cardinality({r \in datasets.df : r.key = k})
LongestCount == SetMax({PointCount(k) : k \in {r.key : r \in datasets.df}})
PlannedSum == datasets.planned.encoder_length + datasets.planned.prediction_length
RetainedKeys == {r.key : r \in datasets.df_kept}

(* C11 as stated: a series is retained iff its point count is at least
   max(configured_minimum, encoder_length + prediction_length), replaced by
   the maximum observed series length only when that maximum is below the
   configured minimum. *)
RetentionThresholdAsStated ==
    (pc = "train_done" /\ datasets.outcome \in {"ok", "not_enough"}) =>
        LET effective_min == IF LongestCount < MIN_SERIES_POINTS THEN LongestCount
                             ELSE Max(MIN_SERIES_POINTS, PlannedSum)
        IN  RetainedKeys = {k \in {r.key : r \in datasets.df} : PointCount(k) >= effective_min}

(* C11 as amended: a series is retained iff its point count (before gap
   filling) is at least effective_min, where effective_min is
   max(configured_minimum, min(encoder_length + prediction_length, longest
   series length)), replaced by the longest series length when that length
   is below the configured minimum, and never less than 1. *)
RetentionThreshold ==
    (pc = "train_done" /\ datasets.outcome \in {"ok", "not_enough"}) =>
        LET capped == IF PlannedSum <= LongestCount THEN PlannedSum ELSE LongestCount
            effective_min == IF LongestCount < MIN_SERIES_POINTS THEN LongestCount
                             ELSE IF MIN_SERIES_POINTS >= capped THEN MIN_SERIES_POINTS
                             ELSE capped
        IN  /\ effective_min >= 1
            /\ datasets.effective_min_series_length = effective_min
            /\ RetainedKeys =
                   {k \in {r.key : r \in datasets.df} : PointCount(k) >= effective_min}

\* planned 3 + 1 = 4 against series of 3 and 2 points: the threshold is capped
\* at 3 and only the longer series is retained
RetentionThresholdWitness ==
    /\ pc = "train_done"
    /\ datasets.outcome = "ok"
    /\ MIN_SERIES_POINTS = 1
    /\ PlannedSum = 4
    /\ PointCount(<<"gcp", "compute">>) = 3
    /\ PointCount(<<"gcp", "storage">>) = 2
    /\ datasets.effective_min_series_length = 3
    /\ RetainedKeys = {<<"gcp", "compute">>}

(* C12: for every input with at least one observation and every configured
   minimum, create_datasets retains at least one series: every longest
   series meets the effective threshold and the insufficient-data failure is
   not raised, also when the configured minimum exceeds all data. *)
LongestSeriesRetained ==
    (pc = "train_done" /\ daily_costs # {}) =>
        /\ datasets.outcome = "ok"
        /\ RetainedKeys # {}
        /\ \A k \in {r.key : r \in datasets.df} :
              PointCount(k) = LongestCount => k \in RetainedKeys

\* a configured minimum of 2 with one point per series: both are retained
LongestSeriesRetainedWitness ==
    /\ pc = "train_done"
    /\ MIN_SERIES_POINTS = 2
    /\ datasets.outcome = "ok"
    /\ PointCount(<<"gcp", "compute">>) = 1
    /\ PointCount(<<"gcp", "storage">>) = 1
    /\ RetainedKeys = SeriesKeys

(* C13: the training cutoff is max_time_idx - prediction_length when that
   exceeds the minimum time index and max_time_idx otherwise, so the
   training partition (time_idx <= cutoff) is never empty, also when padding
   shifted time_idx below zero. *)
TrainingPartition ==
    (pc = "train_done" /\ datasets.outcome = "ok") =>
        LET idx == {r.time_idx : r \in datasets.df_filtered}
            max_time_idx == SetMax(idx)
            min_time_idx == SetMin(idx)
            partition == {r \in datasets.df_filtered :
                             r.time_idx <= datasets.training_cutoff}
        IN  /\ datasets.training_cutoff =
                   (IF max_time_idx - datasets.prediction_length > min_time_idx
                    THEN max_time_idx - datasets.prediction_length
                    ELSE max_time_idx)
            /\ partition # {}
            /\ datasets.training_df = partition

\* one observation padded to time_idx -1 and 0: the cutoff collapses to 0
TrainingPartitionWitness ==
    /\ pc = "train_done"
    /\ datasets.outcome = "ok"
    /\ {r.time_idx : r \in datasets.df_filtered} = {-1, 0}
    /\ datasets.prediction_length = 1
    /\ datasets.training_cutoff = 0
    /\ datasets.training_df = datasets.df_filtered

(* C14: _pad_short_series with minimum M adds, for each series with fewer
   than M rows, exactly M - len rows, each a copy of the earliest real row
   (categorical fields and cost) with time_idx and date moved 1..(M - len)
   days before it; afterwards every series has at least M rows, the added
   rows are strictly earlier than every real row of the series, and a series
   that had M rows or more is unchanged. *)
PadShortSeriesRows ==
    pc = "pad_done" =>
        LET M == padding.min_points
            df == padding.df
            result == padding.result
        IN  /\ {r.key : r \in result} = {r.key : r \in df}
            /\ \A k \in {r.key : r \in df} :
                  LET real == {r \in df : r.key = k}
                      after == {r \in result : r.key = k}
                      added == after \ real
                      len == Cardinality(real)
                      earliest == CHOOSE r \in real : \A q \in real : r.date <= q.date
                  IN  /\ real \subseteq after
                      /\ Cardinality(after) >= M
                      /\ len >= M => after = real
                      /\ len < M =>
                            /\ Cardinality(added) = M - len
                            /\ added = {[key |-> k, cost |-> earliest.cost,
                                         region |-> earliest.region,
                                         currency |-> earliest.currency,
                                         date |-> earliest.date - j,
                                         time_idx |-> earliest.time_idx - j] :
                                            j \in 1..(M - len)}
                            /\ \A a \in added : \A r \in real :
                                  a.date < r.date /\ a.time_idx < r.time_idx

\* M = 3: a series of two differing rows gets one copy of its earlier row at
\* time_idx -1, and a series of three rows is left alone
PadShortSeriesRowsWitness ==
    /\ pc = "pad_done"
    /\ padding.min_points = 3
    /\ Cardinality({r \in padding.df : r.key = <<"gcp", "compute">>}) = 2
    /\ Cardinality({r \in padding.df : r.key = <<"gcp", "storage">>}) = 3
    /\ \E r \in padding.df : r.key = <<"gcp", "compute">> /\ r.time_idx = 0 /\ r.cost = 5
    /\ \E r \in padding.df : r.key = <<"gcp", "compute">> /\ r.time_idx = 1 /\ r.cost = 0
    /\ \E r \in padding.result \ padding.df :
          r.key = <<"gcp", "compute">> /\ r.time_idx = -1 /\ r.cost = 5
    /\ Cardinality(padding.result) = 6

(* C15: _get_quantile_index returns the position of the requested level in
   the configured list when it is present, the integer half of the list's
   length when the list is non-empty and lacks the level, and 0 when no list
   is configured; for every non-empty list the index is a valid position. *)
QuantileIndexSelection ==
    pc = "quantile_done" =>
        LET n == Len(quantiles)
            present == \E i \in 1..n : quantiles[i] = quantile
        IN  /\ present => /\ quantiles[quantile_idx + 1] = quantile
                          /\ \A i \in 1..quantile_idx : quantiles[i] # quantile
            /\ (n > 0 /\ ~present) => quantile_idx = n \div 2
            /\ n = 0 => quantile_idx = 0
            /\ n > 0 => (0 <= quantile_idx /\ quantile_idx < n)

\* the median asked of a list that holds it off-centre
QuantileIndexSelectionWitness ==
    /\ pc = "quantile_done"
    /\ quantiles = <<50, 10, 90>>
    /\ quantile = 50
    /\ quantile_idx = 0

(* C17: in the POST /forecast response the sequence under each label "0.1",
   "0.5", "0.9" is the forecaster's output at the index of that level in the
   configured quantile list, and the sequence labelled "0.5" is the one at
   the index _get_quantile_index picks for the median. *)
ForecastLabelsMatchLevels ==
    (pc = "forecast_done" /\ forecast.status = 200) =>
        /\ \A label \in DOMAIN forecast.forecast :
              (\E i \in 1..Len(quantiles) : quantiles[i] = LabelLevel[label]) =>
                  forecast.forecast[label] = IndexOf(quantiles, LabelLevel[label])
        /\ forecast.forecast["0.5"] = _get_quantile_index(quantiles, 50)

\* the orders in which n groups can be processed
Orders(n) == {order \in [1..n -> 1..n] : \A i, j \in 1..n : order[i] = order[j] => i = j}

\* the summaries (one) the loop ends with when the groups are processed in the
\* given order, each entry named after the group it belongs to
ProcessedInOrder(groups, order) ==
    {[weekly |-> acc.weekly, monthly |-> acc.monthly, yearly |-> acc.yearly,
      currency |-> acc.currency,
      entries |-> {[acc.services[k] EXCEPT !.service = order[@]] :
                      k \in 1..Len(acc.services)}] :
        acc \in {SummarizeLoop(permuted, 1, EmptySummary) :
                    permuted \in {[k \in 1..Len(groups) |-> groups[order[k]]]}}}

(* C16: for a fixed set of groups with fixed forecast outcomes (success with
   given predictions, or failure) the provider summary's weekly, monthly and
   yearly totals, its currency tag and its set of per-group entries are the
   same for every order in which the groups are processed. Figures are exact
   rationals. *)
OrderIndependence ==
    pc = "order_done" =>
        LET groups == store["gcp"].groups
        IN  \A order \in Orders(Len(groups)) :
                \A p \in ProcessedInOrder(groups, order) :
                    IF "gcp" \in DOMAIN results
                    THEN /\ p.weekly = results["gcp"].weekly
                         /\ p.monthly = results["gcp"].monthly
                         /\ p.yearly = results["gcp"].yearly
                         /\ p.currency = results["gcp"].currency
                         /\ p.entries = {results["gcp"].services[k] :
                                            k \in 1..Len(results["gcp"].services)}
                    ELSE p.entries = {}

\* three groups, one failing, two succeeding in different currencies with
\* different figures
OrderIndependenceWitness ==
    /\ pc = "order_done"
    /\ TARGET_SUMMARY_CURRENCY = "INR" /\ USD_TO_INR_RATE = 83
    /\ Len(store["gcp"].groups) = 3
    /\ store["gcp"].groups[1] = [currency |-> "USD", ok |-> TRUE, median |-> <<4, -1>>]
    /\ ~store["gcp"].groups[2].ok
    /\ store["gcp"].groups[3] = [currency |-> "EUR", ok |-> TRUE, median |-> <<4, -1>>]
    /\ "gcp" \in DOMAIN results
    /\ results["gcp"].currency = "MULTI"
    /\ Len(results["gcp"].services) = 2

====
